---- MODULE Spec2Model ----
(***************************************************************************)
(* Model of convert_mp4_to_mp3.py: a sequential batch converter that       *)
(* checks for ffmpeg, validates the input directory, materialises the      *)
(* list of matching videos and converts them one after another.            *)
(*                                                                         *)
(* A path is a sequence of components; a component (a file or directory    *)
(* name) is a sequence of one-character strings, so that suffix handling   *)
(* (Path.suffix, Path.with_suffix, str.lower) is computed as pathlib       *)
(* computes it.                                                            *)
(***************************************************************************)
EXTENDS Naturals, Sequences, FiniteSets

(* Largest number of entries placed in the input directory tree. *)
MaxFiles == 2

----------------------------------------------------------------------------
(* Names and paths the runs are exercised with. *)

InputDir == << <<"i", "n">> >>

OutputDir == << <<"o", "u", "t">> >>

SubName == <<"s", "u", "b">>

DotMp3 == <<".", "m", "p", "3">>

DefaultExtensions ==
    << <<".", "m", "p", "4">>, <<".", "m", "4", "v">>, <<".", "m", "o", "v">> >>

ExtensionChoices ==
    { DefaultExtensions,
      << <<"M", "P", "4">> >> }

(* Entries that may be present under the input directory. *)
TreeUniverse ==
    { [path |-> InputDir \o << <<"a", ".", "m", "p", "4">> >>, isFile |-> TRUE],
      [path |-> InputDir \o << <<"a", ".", "m", "o", "v">> >>, isFile |-> TRUE],
      [path |-> InputDir \o << SubName, <<"b", ".", "M", "P", "4">> >>, isFile |-> TRUE],
      [path |-> InputDir \o << <<"c", ".", "d", ".", "m", "4", "v">> >>, isFile |-> TRUE],
      [path |-> InputDir \o << <<"d", ".", "m", "p", "4">> >>, isFile |-> FALSE] }

(* Directories and files that may exist under the output root beforehand. *)
OutDirUniverse == { OutputDir, OutputDir \o <<SubName>> }

OutFileUniverse == { OutputDir \o << <<"a", ".", "m", "p", "3">> >> }

----------------------------------------------------------------------------
(* pathlib and str helpers *)

Parent(p) == SubSeq(p, 1, Len(p) - 1)

Name(p) == p[Len(p)]

Lower(c) ==
    CASE c = "M" -> "m"
      [] c = "P" -> "p"
      [] c = "V" -> "v"
      [] c = "O" -> "o"
      [] OTHER -> c

LowerStr(s) == [i \in 1..Len(s) |-> Lower(s[i])]

(* str.rfind("."), 1-based; 0 when there is no dot *)
RFindDot(s) ==
    LET dots == {i \in 1..Len(s) : s[i] = "."}
    IN IF dots = {} THEN 0 ELSE CHOOSE i \in dots : \A j \in dots : j <= i

(* PurePath.suffix: the part from the last dot on, unless the dot is the
   first or the last character of the name *)
Suffix(name) ==
    LET i == RFindDot(name)
    IN IF 1 < i /\ i < Len(name) THEN SubSeq(name, i, Len(name)) ELSE <<>>

WithSuffix_Append(p, suffix) ==
    Parent(p) \o << Name(p) \o suffix >>

(* PurePath.with_suffix *)
WithSuffix(p, suffix) ==
    LET name == Name(p)
        old == Suffix(name)
    IN Parent(p) \o << SubSeq(name, 1, Len(name) - Len(old)) \o suffix >>

(* PurePath.relative_to, for a path below root *)
RelativeTo(p, root) == SubSeq(p, Len(root) + 1, Len(p))

(* destination = output_dir / relative_path.with_suffix(".mp3") *)
Destination(video, inputRoot, outputRoot) ==
    outputRoot \o WithSuffix(RelativeTo(video, inputRoot), DotMp3)

(* Path.mkdir(parents=True, exist_ok=True): an existing directory is fine,
   a missing parent is created first, any other failure is raised.  The
   result carries the directories that exist afterwards. *)
RECURSIVE Mkdir(_, _, _)
Mkdir(p, ds, failing) ==
    IF p = <<>> \/ p \in ds
    THEN [ok |-> TRUE, dirs |-> ds]
    ELSE LET up == Mkdir(Parent(p), ds, failing)
         IN IF ~up.ok THEN up
            ELSE IF p \in failing THEN [ok |-> FALSE, dirs |-> up.dirs]
            ELSE [ok |-> TRUE, dirs |-> up.dirs \cup {p}]

----------------------------------------------------------------------------
(* find_videos *)

NormalizeExt(ext) ==
    IF Len(ext) > 0 /\ ext[1] = "." THEN LowerStr(ext) ELSE <<".">> \o LowerStr(ext)

NormalizedExts(exts) == { NormalizeExt(exts[i]) : i \in 1..Len(exts) }

(* directory.glob("*") yields direct children, directory.rglob("*") the
   whole subtree *)
Globbed(entries, directory, rec) ==
    { e \in entries :
        /\ Len(e.path) > Len(directory)
        /\ SubSeq(e.path, 1, Len(directory)) = directory
        /\ (rec \/ Len(e.path) = Len(directory) + 1) }

FindVideos(entries, directory, exts, rec) ==
    { e.path : e \in { g \in Globbed(entries, directory, rec) :
                         g.isFile /\ LowerStr(Suffix(Name(g.path))) \in NormalizedExts(exts) } }

(* list(...) of the generator: the order is whatever the filesystem yields *)
Orderings(S) ==
    { s \in [1..Cardinality(S) -> S] : \A x \in S : \E i \in 1..Cardinality(S) : s[i] = x }

----------------------------------------------------------------------------
(* convert_video_to_mp3 helpers *)

ShouldSkip_Inverted(destExists, ow) == destExists /\ ow

ShouldSkip_IgnoreFlag(destExists, ow) == destExists

(* if destination.exists() and not overwrite *)
ShouldSkip(destExists, ow) == destExists /\ ~ow

(* "-y" if overwrite else "-n" *)
OverwriteFlag(ow) == IF ow THEN "-y" ELSE "-n"

EncoderResults == {"exit0", "nonzero", "missing"}

(* what subprocess.run(command, check=True) raises *)
Raised(result) ==
    CASE result = "exit0" -> "none"
      [] result = "nonzero" -> "CalledProcessError"
      [] result = "missing" -> "FileNotFoundError"

Handled_OnlyExit == {"CalledProcessError"}

(* the except clauses around subprocess.run *)
Handled == {"CalledProcessError", "FileNotFoundError"}

OutcomeOf_Unchecked(exc) == "Converted"

(* the message logged for the job *)
OutcomeOf(exc) == IF exc = "none" THEN "Converted" ELSE "Failed"

InputDirOk_ExistsOnly(kind) == kind # "missing"

(* not (not input_dir.exists() or not input_dir.is_dir()) *)
InputDirOk(kind) == kind = "dir"

----------------------------------------------------------------------------
VARIABLES
    ffmpegOnPath,   \* shutil.which("ffmpeg") finds the encoder at start
    inputKind,      \* "dir", "file" or "missing": what input_dir refers to
    tree,           \* entries under the input directory
    extensions,     \* args.extensions
    recursive,      \* args.recursive
    overwrite,      \* args.overwrite
    failing,        \* directories whose creation raises OSError
    dirs,           \* existing directories under the output root
    files,          \* existing files under the output root
    pc,             \* position in main
    error,          \* exception that left main, or "none"
    exitCode,       \* process exit status once terminated (0 before)
    scanned,        \* find_videos has traversed the input directory
    videos,         \* the materialised list
    index,          \* loop index of main's for loop
    jobs,           \* calls of convert_video_to_mp3, in order
    invoked,        \* calls of subprocess.run, in order
    outcomes,       \* per-job messages logged by convert_video_to_mp3
    progress,       \* render_progress outputs, <<current, total>>
    created         \* directories created by this run

vars == << ffmpegOnPath, inputKind, tree, extensions, recursive, overwrite,
           failing, dirs, files, pc, error, exitCode, scanned, videos, index,
           jobs, invoked, outcomes, progress, created >>

config == << ffmpegOnPath, inputKind, tree, extensions, recursive, overwrite, failing >>

Init ==
    /\ ffmpegOnPath \in BOOLEAN
    /\ inputKind \in {"dir", "file", "missing"}
    /\ tree \in { t \in SUBSET TreeUniverse : Cardinality(t) <= MaxFiles }
    /\ (inputKind # "dir" => tree = {})
    /\ extensions \in ExtensionChoices
    /\ recursive \in BOOLEAN
    /\ overwrite \in BOOLEAN
    /\ dirs \in { d \in SUBSET OutDirUniverse :
                    \A p \in d : Parent(p) = <<>> \/ Parent(p) \in d }
    /\ files \in { f \in SUBSET OutFileUniverse : \A p \in f : Parent(p) \in dirs }
    /\ failing \in SUBSET (OutDirUniverse \ dirs)
    /\ pc = "ensure_ffmpeg"
    /\ error = "none"
    /\ exitCode = 0
    /\ scanned = FALSE
    /\ videos = <<>>
    /\ index = 0
    /\ jobs = <<>>
    /\ invoked = <<>>
    /\ outcomes = <<>>
    /\ progress = <<>>
    /\ created = {}

(* an exception leaves main: traceback, exit status 1 *)
Raise(exc) ==
    /\ pc' = "raised"
    /\ error' = exc
    /\ exitCode' = 1

(* ensure_ffmpeg_available() *)
EnsureFfmpeg ==
    /\ pc = "ensure_ffmpeg"
    /\ IF ffmpegOnPath
       THEN pc' = "check_input" /\ UNCHANGED <<error, exitCode>>
       ELSE Raise("RuntimeError")
    /\ UNCHANGED << config, dirs, files, scanned, videos, index, jobs, invoked,
                    outcomes, progress, created >>

(* if not input_dir.exists() or not input_dir.is_dir(): raise *)
CheckInputDir ==
    /\ pc = "check_input"
    /\ IF InputDirOk(inputKind)
       THEN pc' = "discover" /\ UNCHANGED <<error, exitCode>>
       ELSE Raise("InputDirError")
    /\ UNCHANGED << config, dirs, files, scanned, videos, index, jobs, invoked,
                    outcomes, progress, created >>

Discover_MkdirFirst ==
    /\ pc = "discover"
    /\ scanned' = TRUE
    /\ LET mk == Mkdir(OutputDir, dirs, failing)
       IN /\ dirs' = mk.dirs
          /\ created' = created \cup (mk.dirs \ dirs)
    /\ \E vs \in Orderings(FindVideos(tree, InputDir, extensions, recursive)) :
          /\ videos' = vs
          /\ IF vs = <<>>
             THEN pc' = "empty" /\ index' = index
             ELSE pc' = "convert" /\ index' = 1
    /\ UNCHANGED << config, files, error, exitCode, jobs, invoked, outcomes, progress >>

(* videos = list(find_videos(...)); if not videos: return *)
Discover ==
    /\ pc = "discover"
    /\ scanned' = TRUE
    /\ \E vs \in Orderings(FindVideos(tree, InputDir, extensions, recursive)) :
          /\ videos' = vs
          /\ IF vs = <<>>
             THEN pc' = "empty" /\ index' = index
             ELSE pc' = "convert" /\ index' = 1
    /\ UNCHANGED << config, dirs, files, error, exitCode, jobs, invoked, outcomes,
                    progress, created >>

(* one call convert_video_to_mp3(video, destination, bitrate, overwrite) *)
Convert ==
    /\ pc = "convert"
    /\ LET video == videos[index]
           destination == Destination(video, InputDir, OutputDir)
           mk == Mkdir(Parent(destination), dirs, failing)
           job == [index |-> index, source |-> video, destination |-> destination,
                   destExisted |-> destination \in files,
                   mkdir |-> IF mk.ok THEN "ok" ELSE "error"]
       IN /\ jobs' = Append(jobs, job)
          /\ dirs' = mk.dirs
          /\ created' = created \cup (mk.dirs \ dirs)
          /\ IF ~mk.ok
             THEN /\ Raise("MkdirError")
                  /\ UNCHANGED <<files, invoked, outcomes>>
             ELSE IF ShouldSkip(destination \in files, overwrite)
             THEN /\ outcomes' = Append(outcomes, [index |-> index, kind |-> "Skipped"])
                  /\ pc' = "progress"
                  /\ UNCHANGED <<files, invoked, error, exitCode>>
             ELSE \E result \in EncoderResults :
                  \E partial \in (IF result = "nonzero" THEN BOOLEAN ELSE {FALSE}) :
                     /\ invoked' = Append(invoked,
                                     [index |-> index, source |-> video,
                                      destination |-> destination,
                                      flag |-> OverwriteFlag(overwrite),
                                      result |-> result])
                     /\ files' = IF result = "exit0" \/ partial
                                 THEN files \cup {destination} ELSE files
                     /\ IF Raised(result) = "none" \/ Raised(result) \in Handled
                        THEN /\ outcomes' = Append(outcomes,
                                              [index |-> index,
                                               kind |-> OutcomeOf(Raised(result))])
                             /\ pc' = "progress"
                             /\ UNCHANGED <<error, exitCode>>
                        ELSE /\ Raise("EncoderError")
                             /\ UNCHANGED outcomes
    /\ UNCHANGED << config, scanned, videos, index, progress >>

(* render_progress(index), then the loop advances *)
RenderProgress ==
    /\ pc = "progress"
    /\ progress' = Append(progress, <<index, Len(videos)>>)
    /\ IF index < Len(videos)
       THEN index' = index + 1 /\ pc' = "convert"
       ELSE index' = index /\ pc' = "finish"
    /\ UNCHANGED << config, dirs, files, error, exitCode, scanned, videos, jobs,
                    invoked, outcomes, created >>

(* the trailing newline and "Conversion complete." *)
Finish ==
    /\ pc = "finish"
    /\ pc' = "done"
    /\ UNCHANGED << config, dirs, files, error, exitCode, scanned, videos, index,
                    jobs, invoked, outcomes, progress, created >>

Next ==
    \/ EnsureFfmpeg
    \/ CheckInputDir
    \/ Discover
    \/ Convert
    \/ RenderProgress
    \/ Finish

Spec == Init /\ [][Next]_vars

(* main is one sequential thread that nothing preempts for good: once in the
   loop, each step that is possible is eventually taken *)
FairSpec ==
    Spec /\ WF_vars(Convert) /\ WF_vars(RenderProgress) /\ WF_vars(Finish)

----------------------------------------------------------------------------
(* Shorthands used by the properties *)

Terminated == pc \in {"done", "empty", "raised"}

InvocationsOf(i) == { k \in DOMAIN invoked : invoked[k].index = i }

OutcomesOf(i) == { k \in DOMAIN outcomes : outcomes[k].index = i }

DirectoriesAlwaysCreatable == \A i \in DOMAIN jobs : jobs[i].mkdir = "ok"

AttemptedInOrder ==
    /\ Len(jobs) <= Len(videos)
    /\ \A i \in DOMAIN jobs : jobs[i].index = i /\ jobs[i].source = videos[i]

----------------------------------------------------------------------------
(* C1: in a run that reaches the processing loop with N >= 1 videos and in
   which every job ends in one of the per-file outcomes encoder exit 0,
   encoder nonzero exit, encoder executable missing, or destination already
   exists, the batch is never cut short: the jobs are attempted one after
   another in the materialised order, all N of them, and the run reaches
   "done". *)
C1_BatchRunsToCompletion ==
    /\ (pc = "convert") ~> (pc = "done" \/ ~DirectoriesAlwaysCreatable)
    /\ []AttemptedInOrder
    /\ [](pc = "done" => Len(jobs) = Len(videos) /\ Len(outcomes) = Len(videos))
    /\ [](error = "none" => DirectoriesAlwaysCreatable)

C1_Witness ==
    /\ pc = "done"
    /\ Len(jobs) = 2
    /\ invoked[1].index = 1
    /\ invoked[1].result = "nonzero"
    /\ invoked[2].index = 2
    /\ invoked[2].result = "missing"

(* C2: when overwrite is off and a file is present at the destination when
   convert is called, the encoder is not invoked for that job and the job is
   logged as skipped. *)
C2_ExistingDestinationSkipped ==
    \A i \in DOMAIN jobs :
        (~overwrite /\ jobs[i].destExisted) =>
            /\ InvocationsOf(i) = {}
            /\ Cardinality(OutcomesOf(i)) = 1
            /\ \A k \in OutcomesOf(i) : outcomes[k].kind = "Skipped"

C2_Witness ==
    /\ ~overwrite
    /\ \E i, j \in DOMAIN jobs :
          /\ i < j
          /\ jobs[i].destination = jobs[j].destination
          /\ ~jobs[i].destExisted
          /\ jobs[j].destExisted
          /\ InvocationsOf(j) = {}

(* C3 as stated: when overwrite is on, every call of convert invokes the
   encoder, whether or not the destination exists. *)
C3_AlwaysInvokes ==
    \A i \in DOMAIN jobs : overwrite => Cardinality(InvocationsOf(i)) = 1

(* C3 as amended: when overwrite is on and the destination's parent
   directories could be created, the call of convert invokes the encoder
   (with -y), whether or not the destination exists. *)
C3_InvokesWhenDirsCreated ==
    \A i \in DOMAIN jobs :
        (overwrite /\ jobs[i].mkdir = "ok") =>
            /\ Cardinality(InvocationsOf(i)) = 1
            /\ \A k \in InvocationsOf(i) : invoked[k].flag = "-y"

C3_Witness ==
    /\ overwrite
    /\ \E i \in DOMAIN jobs :
          /\ jobs[i].destExisted
          /\ jobs[i].mkdir = "ok"
          /\ InvocationsOf(i) # {}

(* C4: a run whose discovery finds nothing stops there: no directory has
   been created, the encoder has not been invoked, no outcome has been
   counted and the exit status is 0. *)
C4_EmptyRunTouchesNothing ==
    (scanned /\ videos = <<>>) =>
        /\ pc = "empty"
        /\ ~ENABLED Next
        /\ created = {}
        /\ invoked = <<>>
        /\ jobs = <<>>
        /\ outcomes = <<>>
        /\ progress = <<>>
        /\ error = "none"
        /\ exitCode = 0

C4_Witness ==
    /\ pc = "empty"
    /\ tree # {}
    /\ OutputDir \notin dirs
    /\ OutputDir \notin failing

(* C5: when ffmpeg is not on the search path, or the input directory is
   missing or not a directory, the run ends with an error and has not
   scanned the input directory, created a directory or invoked the encoder. *)
C5_FatalBeforeDiscovery ==
    (~ffmpegOnPath \/ inputKind # "dir") =>
        /\ ~scanned
        /\ created = {}
        /\ invoked = <<>>
        /\ jobs = <<>>
        /\ pc \in {"ensure_ffmpeg", "check_input", "raised"}
        /\ (pc = "check_input" => ffmpegOnPath)
        /\ (pc = "raised" =>
              /\ exitCode # 0
              /\ error = (IF ~ffmpegOnPath THEN "RuntimeError" ELSE "InputDirError"))

C5_Witness ==
    /\ pc = "raised"
    /\ error = "InputDirError"
    /\ inputKind = "file"

(* C6: a terminated process has exit status 0 if it completed its run, and a
   nonzero status only after a category-level failure (ffmpeg unavailable at
   start, input directory missing or not a directory). *)
C6_ExitCodes ==
    Terminated =>
        /\ (pc \in {"done", "empty"} => exitCode = 0)
        /\ (exitCode # 0 => error \in {"RuntimeError", "InputDirError"})

(* C7: a run with N >= 1 videos emits exactly the updates 1/N, 2/N, ..., N/N,
   the update for job i after the attempt of job i and before job i+1. *)
C7_ProgressUpdates ==
    /\ Len(progress) <= Len(jobs)
    /\ Len(jobs) <= Len(progress) + 1
    /\ \A i \in DOMAIN progress : progress[i] = <<i, Len(videos)>>
    /\ (Terminated /\ Len(videos) >= 1 => Len(progress) = Len(videos))

(* C8: every encoder invocation yields exactly one outcome for its job,
   Converted for exit code 0 and Failed for a nonzero exit code or a missing
   executable, and none of these leaves convert as an exception. *)
C8_OutcomeFromEncoderResult ==
    /\ error # "EncoderError"
    /\ \A k \in DOMAIN invoked :
          /\ Cardinality(OutcomesOf(invoked[k].index)) = 1
          /\ \A o \in OutcomesOf(invoked[k].index) :
                outcomes[o].kind =
                    (IF invoked[k].result = "exit0" THEN "Converted" ELSE "Failed")

C8_Witness ==
    /\ pc = "progress"
    /\ Len(invoked) = 2
    /\ invoked[1].result = "missing"
    /\ outcomes[1].kind = "Failed"
    /\ invoked[2].result = "exit0"
    /\ outcomes[2].kind = "Converted"

(* C9: the destination of every job is the source's path relative to the
   input root, placed under the output root, with the directory nesting kept
   and the part of the file name from its last dot on replaced by ".mp3". *)
C9_DestinationMapping ==
    \A i \in DOMAIN jobs :
        LET s == jobs[i].source
            d == jobs[i].destination
            nesting == Len(s) - Len(InputDir) - 1
        IN /\ Len(d) = Len(OutputDir) + nesting + 1
           /\ SubSeq(d, 1, Len(OutputDir)) = OutputDir
           /\ \A k \in 1..nesting : d[Len(OutputDir) + k] = s[Len(InputDir) + k]
           /\ \E n \in 1..Len(Name(s)) :
                 /\ Name(s)[n] = "."
                 /\ \A m \in (n + 1)..Len(Name(s)) : Name(s)[m] # "."
                 /\ Name(d) = SubSeq(Name(s), 1, n - 1) \o DotMp3

C9_Witness ==
    /\ \E i \in DOMAIN jobs :
          /\ jobs[i].source = InputDir \o << SubName, <<"b", ".", "M", "P", "4">> >>
          /\ jobs[i].destination = OutputDir \o << SubName, <<"b", ".", "m", "p", "3">> >>
    /\ \E i \in DOMAIN jobs :
          /\ jobs[i].source = InputDir \o << <<"c", ".", "d", ".", "m", "4", "v">> >>
          /\ jobs[i].destination = OutputDir \o << <<"c", ".", "d", ".", "m", "p", "3">> >>

(* C10: when the parent directories of a job's destination cannot be
   created, that job alone fails: a failure is recorded for it, the encoder
   is not invoked for it, and the batch goes on. *)
C10_MkdirFailureIsolated ==
    \A i \in DOMAIN jobs :
        jobs[i].mkdir = "error" =>
            /\ pc # "raised"
            /\ InvocationsOf(i) = {}
            /\ \E k \in OutcomesOf(i) : outcomes[k].kind = "Failed"

====
